---- MODULE Spec2Model ----
(***************************************************************************)
(* Model of models/payment.py: the Alipay payment acquirer (fee            *)
(* computation) and the Alipay payment transaction (lookup of the          *)
(* transaction of a notification, validation of the notification against   *)
(* the transaction, and the state update from the notification).           *)
(*                                                                         *)
(* Python values.  None is the empty tuple <<>> and a string s is the      *)
(* one-element tuple <<s>>; the recordset id False/None is 0.  The strings *)
(* that the code parses as numbers (mc_gross, handling_amount) are tuples  *)
(* of characters, so that float() is modelled by what it does.  A float is *)
(* an exact fraction [num, den] in lowest terms, den > 0.                  *)
(***************************************************************************)
EXTENDS Integers, Sequences, FiniteSets, TLC

\* acquirer: the payment.acquirer record; store: the payment.transaction table;
\* last: the last call, its arguments and its result; applied: see below.
VARIABLES acquirer, store, last, applied

vars == <<acquirer, store, last, applied>>

\* No method has been called yet.
NoCall == [op |-> "none"]

None == <<>>

Str(s) == <<s>>

\* Python truth value of None or a string: None and '' are false.
Truthy(v) == v # None /\ v # Str("")

\* Python truth value of a recordset id: False, None and 0 are false.
TruthyId(id) == id # 0

\* dict.get(key, default) on a payload whose absent keys hold None.
GetDefault(v, default) == IF v = None THEN default ELSE v

-----------------------------------------------------------------------------
(* Floats as exact fractions. *)

Abs(n) == IF n < 0 THEN -n ELSE n

RECURSIVE GCD(_, _)
GCD(a, b) == IF b = 0 THEN a ELSE GCD(b, a % b)

\* The fraction n / d (d > 0) in lowest terms.
Frac(n, d) == LET g == GCD(Abs(n), d) IN [num |-> n \div g, den |-> d \div g]

FAdd(a, b) == Frac(a.num * b.den + b.num * a.den, a.den * b.den)

FSub(a, b) == Frac(a.num * b.den - b.num * a.den, a.den * b.den)

FMul(a, b) == Frac(a.num * b.num, a.den * b.den)

\* a / b for b # 0, the denominator kept positive.
FDiv(a, b) == IF b.num > 0 THEN Frac(a.num * b.den, a.den * b.num)
                            ELSE Frac(-(a.num * b.den), a.den * (-b.num))

FEq(a, b) == a.num * b.den = b.num * a.den

Hundred == Frac(100, 1)

One == Frac(1, 1)

Zero == Frac(0, 1)

-----------------------------------------------------------------------------
(* AcquirerAlipay.alipay_compute_fees *)

\* The default fee rates of the acquirer.
FeesDomFixedDefault == Frac(35, 100)

FeesDomVarDefault == Frac(34, 10)

FeesIntFixedDefault == Frac(35, 100)

FeesIntVarDefault == Frac(39, 10)

\* The domestic branch taken whenever the two ids are equal, a payer country of
\* None and a company without country included.
IsDomesticNoNullCheck(acq, country_id) == acq.company_country_id = country_id

\* The branch of "if country and self.company_id.country_id.id == country.id".
IsDomestic(acq, country_id) ==
    TruthyId(country_id) /\ acq.company_country_id = country_id

FeePercentage(acq, country_id) ==
    IF IsDomestic(acq, country_id) THEN acq.fees_dom_var ELSE acq.fees_int_var

FeeFixed(acq, country_id) ==
    IF IsDomestic(acq, country_id) THEN acq.fees_dom_fixed ELSE acq.fees_int_fixed

\* The result: a float, or the ZeroDivisionError of a 100 percent rate.
alipay_compute_fees(acq, amount, country_id) ==
    IF ~acq.fees_active THEN [kind |-> "ok", value |-> Zero]
    ELSE LET percentage == FeePercentage(acq, country_id)
             fixed == FeeFixed(acq, country_id)
             divisor == FSub(One, FDiv(percentage, Hundred))
         IN IF divisor.num = 0
            THEN [kind |-> "ZeroDivisionError"]
            ELSE [kind |-> "ok",
                  value |-> FDiv(FAdd(FMul(FDiv(percentage, Hundred), amount), fixed),
                                 divisor)]

-----------------------------------------------------------------------------
(* float(), odoo.tools.float_utils.float_compare and '%.2f' as the         *)
(* transaction methods use them.                                           *)

DigitChars == <<"0", "1", "2", "3", "4", "5", "6", "7", "8", "9">>

IsDigit(c) == \E d \in 1 .. 10 : DigitChars[d] = c

DigitValue(c) == (CHOOSE d \in 1 .. 10 : DigitChars[d] = c) - 1

RECURSIVE DigitsValue(_)
DigitsValue(cs) ==
    IF cs = <<>> THEN 0
    ELSE 10 * DigitsValue(SubSeq(cs, 1, Len(cs) - 1)) + DigitValue(cs[Len(cs)])

RECURSIVE Pow10(_)
Pow10(n) == IF n = 0 THEN 1 ELSE 10 * Pow10(n - 1)

\* float(s) of a string of characters, for the decimal notation
\* [sign] digits [. digits] with at least one digit; any other string of the
\* characters drawn here (letters, a lone sign or point, two points, the empty
\* string) raises ValueError.
ParseFloat(s) ==
    LET signed == Len(s) > 0 /\ s[1] \in {"-", "+"}
        body == IF signed THEN Tail(s) ELSE s
        points == {i \in 1 .. Len(body) : body[i] = "."}
        wellFormed == /\ \A i \in 1 .. Len(body) : IsDigit(body[i]) \/ body[i] = "."
                      /\ Cardinality(points) <= 1
                      /\ Len(body) - Cardinality(points) >= 1
    IN IF ~wellFormed THEN [kind |-> "ValueError"]
       ELSE LET p == IF points = {} THEN Len(body) + 1 ELSE CHOOSE i \in points : TRUE
                whole == SubSeq(body, 1, p - 1)
                fraction == SubSeq(body, p + 1, Len(body))
                scale == Pow10(Len(fraction))
                magnitude == DigitsValue(whole) * scale + DigitsValue(fraction)
            IN [kind |-> "ok",
                value |-> Frac(IF signed /\ s[1] = "-" THEN -magnitude ELSE magnitude,
                               scale)]

\* float_round(value, precision_digits=2) in hundredths: to the nearest
\* hundredth, a half away from zero.
FloatRound2(f) ==
    LET hundredths == (2 * 100 * Abs(f.num) + f.den) \div (2 * f.den)
    IN IF f.num < 0 THEN -hundredths ELSE hundredths

\* float_compare(value1, value2, 2): both rounded, then the sign of the difference.
float_compare(value1, value2) ==
    LET delta == FloatRound2(value1) - FloatRound2(value2)
    IN IF delta = 0 THEN 0 ELSE IF delta < 0 THEN -1 ELSE 1

RECURSIVE NatChars(_)
NatChars(n) ==
    IF n < 10 THEN <<DigitChars[n + 1]>>
    ELSE NatChars(n \div 10) \o <<DigitChars[(n % 10) + 1]>>

\* '%.2f' % f as a string of characters.
Format2(f) ==
    LET h == FloatRound2(f)
        a == Abs(h)
    IN (IF h < 0 THEN <<"-">> ELSE <<>>)
       \o NatChars(a \div 100) \o <<".">>
       \o <<DigitChars[((a \div 10) % 10) + 1], DigitChars[(a % 10) + 1]>>

-----------------------------------------------------------------------------
(* TxAlipay._alipay_form_get_tx_from_data *)

\* self.env['payment.transaction'].search([('reference', '=', reference)]):
\* the ids of the matching records, in the order of the table.
Search(st, reference) ==
    SelectSeq([i \in 1 .. Len(st) |-> i], LAMBDA i : Str(st[i].reference) = reference)

\* The lookup that takes the first match and refuses only an empty result.
FindRefusesMatches(txs) == txs = <<>>

\* "if not txs or len(txs) > 1"
RefusesMatches(txs) == txs = <<>> \/ Len(txs) > 1

\* The result: the id of the transaction found, or the ValidationError raised.
form_get_tx_from_data(st, data) ==
    LET reference == data.item_number
        txn_id == data.txn_id
    IN IF ~Truthy(reference) \/ ~Truthy(txn_id)
       THEN [kind |-> "ValidationError", why |-> "missing reference or txn_id"]
       ELSE LET txs == Search(st, reference)
            IN IF RefusesMatches(txs)
               THEN [kind |-> "ValidationError",
                     why |-> IF txs = <<>> THEN "no order found"
                                           ELSE "multiple order found"]
               ELSE [kind |-> "ok", tx |-> txs[1]]

-----------------------------------------------------------------------------
(* TxAlipay._alipay_form_get_invalid_parameters *)

TxnIdCheck(tx, data) ==
    IF Truthy(tx.acquirer_reference) /\ data.txn_id # tx.acquirer_reference
    THEN << <<"txn_id", data.txn_id, tx.acquirer_reference>> >>
    ELSE <<>>

\* float(data.get('mc_gross', '0.0'))
McGrossParsed(data) == ParseFloat(GetDefault(data.mc_gross, Str(<<"0", ".", "0">>))[1])

McGrossCheck(tx, data) ==
    IF float_compare(McGrossParsed(data).value, FAdd(tx.amount, tx.fees)) # 0
    THEN << <<"mc_gross", data.mc_gross, Str(Format2(tx.amount))>> >>
    ELSE <<>>

McCurrencyCheck(tx, data) ==
    IF data.mc_currency # tx.currency_name
    THEN << <<"mc_currency", data.mc_currency, tx.currency_name>> >>
    ELSE <<>>

\* float(data.get('handling_amount')), evaluated only when the key is present.
HandlingParsed(data) == ParseFloat(data.handling_amount[1])

HandlingCheck(tx, data) ==
    IF data.handling_amount # None
       /\ float_compare(HandlingParsed(data).value, tx.fees) # 0
    THEN << <<"handling_amount", data.handling_amount, tx.fees>> >>
    ELSE <<>>

PayerCheck(tx, data) ==
    IF tx.payment_token_id # None /\ data.payer_id # tx.payment_token_id
    THEN << <<"payer_id", data.payer_id, tx.payment_token_id>> >>
    ELSE <<>>

\* Line 173 compares receiver_id after its two guards hold.
ReceiverIdCompared(acq, data) ==
    Truthy(data.receiver_id) /\ Truthy(acq.alipay_seller_account)

\* Line 175 guards the comparison of receiver_email.
ReceiverEmailCompared(acq, data) ==
    ~Truthy(data.receiver_id) \/ ~Truthy(acq.alipay_seller_account)

ReceiverIdCheck(acq, data) ==
    IF ReceiverIdCompared(acq, data) /\ data.receiver_id # acq.alipay_seller_account
    THEN << <<"receiver_id", data.receiver_id, acq.alipay_seller_account>> >>
    ELSE <<>>

ReceiverEmailCheck(acq, data) ==
    IF ReceiverEmailCompared(acq, data)
       /\ data.receiver_email # acq.alipay_email_account
    THEN << <<"receiver_email", data.receiver_email, acq.alipay_email_account>> >>
    ELSE <<>>

\* The result: the list of invalid parameters, or the ValueError that float()
\* raises on mc_gross (line 163) or on handling_amount (line 167); compared is
\* the set of seller comparisons the call evaluated.
form_get_invalid_parameters(tx, acq, data) ==
    IF McGrossParsed(data).kind # "ok"
    THEN [kind |-> "ValueError", at |-> "mc_gross", compared |-> {}]
    ELSE IF data.handling_amount # None /\ HandlingParsed(data).kind # "ok"
    THEN [kind |-> "ValueError", at |-> "handling_amount", compared |-> {}]
    ELSE [kind |-> "ok",
          value |-> TxnIdCheck(tx, data) \o McGrossCheck(tx, data)
                    \o McCurrencyCheck(tx, data) \o HandlingCheck(tx, data)
                    \o PayerCheck(tx, data) \o ReceiverIdCheck(acq, data)
                    \o ReceiverEmailCheck(acq, data),
          compared |-> (IF ReceiverIdCompared(acq, data) THEN {"receiver_id"} ELSE {})
                       \cup (IF ReceiverEmailCompared(acq, data)
                             THEN {"receiver_email"} ELSE {})]

-----------------------------------------------------------------------------
(* TxAlipay._alipay_form_validate *)

\* '%s' % v
PyStr(v) == IF v = None THEN "None" ELSE v[1]

\* The branches with 'Expired' left out of the pending statuses.
StatusStateExpiredUnknown(status) ==
    IF status \in {Str("Completed"), Str("Processed")} THEN "done"
    ELSE IF status = Str("Pending") THEN "pending"
    ELSE "error"

\* The branch of the if/elif/else on payment_status.
StatusState(status) ==
    IF status \in {Str("Completed"), Str("Processed")} THEN "done"
    ELSE IF status \in {Str("Pending"), Str("Expired")} THEN "pending"
    ELSE "error"

\* The acquirer_reference that keeps a value already set.
KeepAcquirerReference(tx, data) ==
    IF Truthy(tx.acquirer_reference) THEN tx.acquirer_reference ELSE data.txn_id

\* 'acquirer_reference': data.get('txn_id')
NewAcquirerReference(tx, data) == data.txn_id

\* res.update(state='done', date_validate=data.get('payment_date', now))
WriteDone(res, data, now) ==
    [res EXCEPT !.state = "done",
                !.date_validate = GetDefault(data.payment_date, Str(now))]

\* The pending branch that records the payment date as well.
WritePendingDated(res, data) ==
    [res EXCEPT !.state = "pending",
                !.state_message = GetDefault(data.pending_reason, Str("")),
                !.date_validate = data.payment_date]

\* res.update(state='pending', state_message=data.get('pending_reason', ''))
WritePending(res, data) ==
    [res EXCEPT !.state = "pending",
                !.state_message = GetDefault(data.pending_reason, Str(""))]

\* res.update(state='error', state_message=error)
WriteError(res, status) ==
    [res EXCEPT !.state = "error",
                !.state_message =
                    Str("Received unrecognized status for Alipay payment "
                        \o res.reference \o ": " \o PyStr(status) \o ", set as error")]

\* The record after self.write(res); now is what fields.datetime.now() returns.
form_validate(tx, data, now) ==
    LET status == data.payment_status
        res == [tx EXCEPT !.acquirer_reference = NewAcquirerReference(tx, data),
                          !.alipay_txn_type = data.payment_type]
    IN IF StatusState(status) = "done" THEN WriteDone(res, data, now)
       ELSE IF StatusState(status) = "pending" THEN WritePending(res, data)
       ELSE WriteError(res, status)

-----------------------------------------------------------------------------
(* The notification handling: a table of transactions created by the        *)
(* checkout, and the three methods called in any order with any payload.    *)
(* A payload holds None under each key it lacks.  applied records, for each  *)
(* transaction, the txn_id of the payload of the last _alipay_form_validate  *)
(* on it (<<>> before the first one).                                       *)

MaxClock == 1

\* What fields.datetime.now() may return.
Times == {"now" \o ToString(t) : t \in 1 .. MaxClock}

States == {"draft", "pending", "done", "error", "cancel"}

Gross10386 == <<"1", "0", "3", ".", "8", "6">>

NotANumber == <<"a", "b", "c">>

DefaultAcquirer ==
    [fees_active |-> TRUE,
     company_country_id |-> 1,
     fees_dom_fixed |-> FeesDomFixedDefault,
     fees_dom_var |-> FeesDomVarDefault,
     fees_int_fixed |-> FeesIntFixedDefault,
     fees_int_var |-> FeesIntVarDefault,
     alipay_seller_account |-> None,
     alipay_email_account |-> Str("shop@x.com")]

\* A transaction as the checkout leaves it, before any notification.
NewTx(reference, state) ==
    [reference |-> reference,
     amount |-> Frac(100, 1),
     fees |-> Frac(386, 100),
     currency_name |-> Str("USD"),
     payment_token_id |-> None,
     acquirer_reference |-> None,
     state |-> state,
     state_message |-> None,
     alipay_txn_type |-> None,
     date_validate |-> None]

TxnIds == {None, Str(""), Str("T1"), Str("T2")}

FindPayloads ==
    [item_number : {None, Str(""), Str("SO1"), Str("SO2"), Str("SO3")},
     txn_id : TxnIds]

ValidatePayloads ==
    [txn_id : TxnIds,
     mc_gross : {Str(Gross10386), Str(NotANumber)},
     mc_currency : {Str("USD")},
     handling_amount : {None},
     payer_id : {None},
     receiver_id : {None},
     receiver_email : {Str("shop@x.com")}]

StatusPayloads ==
    [payment_status : {None, Str("Completed"), Str("Processed"), Str("Pending"),
                       Str("Expired"), Str("Foo")},
     txn_id : TxnIds,
     payment_type : {None, Str("instant")},
     payment_date : {None, Str("D1")},
     pending_reason : {None, Str("R1")}]

Init ==
    /\ acquirer = DefaultAcquirer
    /\ \E s \in States, r \in {"SO1", "SO2"} :
           store = <<NewTx("SO1", s), NewTx(r, "draft")>>
    /\ last = NoCall
    /\ applied = [i \in 1 .. 2 |-> <<>>]

Self == 1

GetTxFromData ==
    \E data \in FindPayloads :
        /\ last' = [op |-> "get_tx_from_data", data |-> data,
                    result |-> form_get_tx_from_data(store, data)]
        /\ UNCHANGED <<acquirer, store, applied>>

GetInvalidParameters ==
    \E data \in ValidatePayloads :
        /\ last' = [op |-> "get_invalid_parameters", tx |-> Self, data |-> data,
                    result |-> form_get_invalid_parameters(store[Self], acquirer, data)]
        /\ UNCHANGED <<acquirer, store, applied>>

FormValidate ==
    \E data \in StatusPayloads, now \in Times :
        /\ store' = [store EXCEPT ![Self] = form_validate(store[Self], data, now)]
        /\ applied' = [applied EXCEPT ![Self] = <<data.txn_id>>]
        /\ last' = [op |-> "validate", tx |-> Self, data |-> data]
        /\ UNCHANGED acquirer

Next == GetTxFromData \/ GetInvalidParameters \/ FormValidate

Spec == Init /\ [][Next]_vars

\* C1: _alipay_form_get_tx_from_data raises ValidationError exactly when the
\* payload's item_number or txn_id is absent or empty, or the number of stored
\* transactions whose reference equals item_number is zero or more than one;
\* in every other case it returns the one transaction with that reference.
C1_FindTransaction ==
    last.op = "get_tx_from_data" =>
        LET reference == last.data.item_number
            matches == {i \in DOMAIN store : <<store[i].reference>> = reference}
            keyMissing == \/ reference \in {None, Str("")}
                          \/ last.data.txn_id \in {None, Str("")}
            fails == keyMissing \/ Cardinality(matches) # 1
        IN /\ (last.result.kind = "ValidationError") <=> fails
           /\ ~fails => /\ last.result.kind = "ok"
                        /\ matches = {last.result.tx}

\* C1 witness: both keys present and one match, which is not the first record
\* of the table, returned.
C1_Witness ==
    /\ last.op = "get_tx_from_data"
    /\ last.result.kind = "ok"
    /\ last.result.tx = 2
    /\ Truthy(last.data.txn_id)

\* C2: whatever the state before and whatever the payload, after
\* _alipay_form_validate the state is the image of payment_status alone:
\* 'Completed'/'Processed' give done, 'Pending'/'Expired' give pending, anything
\* else (absent included) gives error; so once the method has run the state is
\* one of done, pending, error, and is the image of the last payload.
C2_StateMapping ==
    /\ last.op = "validate" =>
           store[last.tx].state =
               CASE last.data.payment_status = Str("Completed") -> "done"
                 [] last.data.payment_status = Str("Processed") -> "done"
                 [] last.data.payment_status = Str("Pending") -> "pending"
                 [] last.data.payment_status = Str("Expired") -> "pending"
                 [] OTHER -> "error"
    /\ \A i \in DOMAIN store :
           applied[i] # <<>> => store[i].state \in {"done", "pending", "error"}

\* C2 witness: a transaction that had been set done (its validation date is
\* set) is now in pending from an 'Expired' notification.
C2_Witness ==
    /\ last.op = "validate"
    /\ last.data.payment_status = Str("Expired")
    /\ store[last.tx].state = "pending"
    /\ store[last.tx].date_validate # None

\* C5 as stated: once acquirer_reference holds a non-empty value, no call
\* changes it.
C5_FixedOnceSet ==
    [][\A i \in DOMAIN store :
           Truthy(store[i].acquirer_reference)
               => store'[i].acquirer_reference = store[i].acquirer_reference]_vars

\* C5 as amended: acquirer_reference is unset at first, each
\* _alipay_form_validate sets it to the payload's txn_id (replacing any value
\* set before, and unsetting it when the payload has no txn_id), and no other
\* call changes it.
C5_SetByEachFormValidate ==
    /\ (last.op = "none" => \A i \in DOMAIN store : store[i].acquirer_reference = None)
    /\ [](last.op = "validate" => store[last.tx].acquirer_reference = last.data.txn_id)
    /\ [][\A i \in DOMAIN store :
              store'[i].acquirer_reference # store[i].acquirer_reference
                  => last'.op = "validate" /\ last'.tx = i]_vars

\* C5 witness: acquirer_reference holds T2, set by _alipay_form_validate, and
\* a later _alipay_form_get_invalid_parameters with txn_id T1 left it in place
\* and reported T1 against it.
C5_Witness ==
    /\ last.op = "get_invalid_parameters"
    /\ store[last.tx].acquirer_reference = Str("T2")
    /\ last.data.txn_id = Str("T1")
    /\ last.result.kind = "ok"
    /\ \E k \in 1 .. Len(last.result.value) : last.result.value[k][1] = "txn_id"

\* C6: date_validate changes only in a step of _alipay_form_validate that
\* leaves the state done, and then to the payload's payment_date, or to the
\* current time when the payload has none; a step that leaves the state pending
\* or error, and every step of the other two methods, leaves it as it was.
C6_DateOnlyWhenDone ==
    [][\A i \in DOMAIN store :
           /\ store'[i].date_validate # store[i].date_validate
                  => /\ last'.op = "validate" /\ last'.tx = i
                     /\ store'[i].state = "done"
           /\ (last'.op = "validate" /\ last'.tx = i /\ store'[i].state = "done")
                  => IF last'.data.payment_date # None
                     THEN store'[i].date_validate = last'.data.payment_date
                     ELSE \E t \in Times : store'[i].date_validate = Str(t)
           /\ (last'.op = "validate" /\ last'.tx = i /\ store'[i].state # "done")
                  => store'[i].date_validate = store[i].date_validate]_vars

\* C6 witness: a notification with a payment date left the state pending and
\* the validation date, set by an earlier one, in place.
C6_Witness ==
    /\ last.op = "validate"
    /\ store[last.tx].state = "pending"
    /\ last.data.payment_date = Str("D1")
    /\ \E t \in Times : store[last.tx].date_validate = Str(t)

\* C9: while acquirer_reference is unset the txn_id check is skipped, and once
\* _alipay_form_validate has run with a payload whose txn_id is a non-empty t,
\* every later _alipay_form_get_invalid_parameters (before the next
\* _alipay_form_validate) with a payload whose txn_id differs from t returns a
\* list holding the discrepancy (txn_id, the payload's txn_id, t).
C9_TxnIdEstablished ==
    last.op = "get_invalid_parameters" =>
        /\ (last.result.kind = "ok" /\ ~Truthy(store[last.tx].acquirer_reference))
               => ~\E k \in 1 .. Len(last.result.value) :
                       last.result.value[k][1] = "txn_id"
        /\ \A t \in TxnIds :
               (applied[last.tx] = <<t>> /\ Truthy(t) /\ last.data.txn_id # t)
                   => /\ last.result.kind = "ok"
                      /\ \E k \in 1 .. Len(last.result.value) :
                             /\ last.result.value[k][1] = "txn_id"
                             /\ last.result.value[k][2] = last.data.txn_id
                             /\ last.result.value[k][3] = t

\* C9 on the calls that return: the same, for every call of
\* _alipay_form_get_invalid_parameters that returns a list.
C9_WhenReturned ==
    (last.op = "get_invalid_parameters" /\ last.result.kind = "ok") =>
        LET hasTxnId == \E k \in 1 .. Len(last.result.value) :
                            last.result.value[k][1] = "txn_id"
        IN /\ ~Truthy(store[last.tx].acquirer_reference) => ~hasTxnId
           /\ \A t \in TxnIds :
                  (applied[last.tx] = <<t>> /\ Truthy(t) /\ last.data.txn_id # t)
                      => \E k \in 1 .. Len(last.result.value) :
                             /\ last.result.value[k][1] = "txn_id"
                             /\ last.result.value[k][2] = last.data.txn_id
                             /\ last.result.value[k][3] = t

-----------------------------------------------------------------------------
(* The validation on its own: _alipay_form_get_invalid_parameters reads the  *)
(* transaction, the acquirer and the payload and writes nothing, so it is    *)
(* called once on every transaction the notification handling can produce    *)
(* (acquirer_reference unset, empty or set; with or without fees, payment    *)
(* token and merchant id) with every payload of the set below.               *)

Gross103864 == <<"1", "0", "3", ".", "8", "6", "4">>

Gross103855 == <<"1", "0", "3", ".", "8", "5", "5">>

Gross100 == <<"1", "0", "0", ".", "0", "0">>

Fee386 == <<"3", ".", "8", "6">>

Fee0 == <<"0">>

NotificationPayloads ==
    [txn_id : {None, Str("T1"), Str("T2")},
     mc_gross : {None, Str(Gross10386), Str(Gross103864), Str(Gross103855),
                 Str(Gross100), Str(NotANumber), Str(<<>>)},
     mc_currency : {None, Str("USD"), Str("EUR")},
     handling_amount : {None, Str(Fee386), Str(Fee0), Str(NotANumber)},
     payer_id : {None, Str("P1"), Str("P2")},
     receiver_id : {None, Str(""), Str("M1"), Str("M2")},
     receiver_email : {None, Str("shop@x.com"), Str("evil@x.com")}]

InitValidate ==
    /\ \E seller \in {None, Str("M1")} :
           acquirer = [DefaultAcquirer EXCEPT !.alipay_seller_account = seller]
    /\ \E ref \in {None, Str(""), Str("T1")}, fees \in {Zero, Frac(386, 100)},
          token \in {None, Str("P1")} :
           store = <<[NewTx("SO1", "draft") EXCEPT !.acquirer_reference = ref,
                                                   !.fees = fees,
                                                   !.payment_token_id = token]>>
    /\ last = NoCall
    /\ applied = <<>>

CheckNotification ==
    /\ last = NoCall
    /\ \E data \in NotificationPayloads :
        /\ last' = [op |-> "get_invalid_parameters", tx |-> Self, data |-> data,
                    result |-> form_get_invalid_parameters(store[Self], acquirer, data)]
        /\ UNCHANGED <<acquirer, store, applied>>

NextValidate == CheckNotification

SpecValidate == InitValidate /\ [][NextValidate]_vars

\* The field names of a list of invalid parameters, in its order.
FieldsOf(list) == [k \in 1 .. Len(list) |-> list[k][1]]

\* mc_gross, read as the decimal number it writes (0.0 when absent), differs
\* from amount + fees after rounding both to 2 decimals; a string that writes
\* no number cannot agree.
C3_GrossFails(tx, data) ==
    LET parsed == ParseFloat(IF data.mc_gross = None THEN <<"0", ".", "0">>
                                                     ELSE data.mc_gross[1])
    IN parsed.kind = "ok" => FloatRound2(parsed.value) # FloatRound2(FAdd(tx.amount, tx.fees))

C3_HandlingFails(tx, data) ==
    /\ data.handling_amount # None
    /\ LET parsed == ParseFloat(data.handling_amount[1])
       IN parsed.kind = "ok" => FloatRound2(parsed.value) # FloatRound2(tx.fees)

\* The checks of the list that fail, by field name, in the order of the list:
\* txn_id, mc_gross, mc_currency, handling_amount, payer_id, then receiver_id
\* or receiver_email.
C3_FailingChecks(tx, acq, data) ==
    LET Entry(fails, name) == IF fails THEN <<name>> ELSE <<>>
        refSet == tx.acquirer_reference \notin {None, Str("")}
        idGiven == data.receiver_id \notin {None, Str("")}
        sellerSet == acq.alipay_seller_account \notin {None, Str("")}
    IN Entry(refSet /\ data.txn_id # tx.acquirer_reference, "txn_id")
       \o Entry(C3_GrossFails(tx, data), "mc_gross")
       \o Entry(data.mc_currency # tx.currency_name, "mc_currency")
       \o Entry(C3_HandlingFails(tx, data), "handling_amount")
       \o Entry(tx.payment_token_id # None /\ data.payer_id # tx.payment_token_id,
                "payer_id")
       \o (IF idGiven /\ sellerSet
           THEN Entry(data.receiver_id # acq.alipay_seller_account, "receiver_id")
           ELSE Entry(data.receiver_email # acq.alipay_email_account, "receiver_email"))

\* C3: _alipay_form_get_invalid_parameters never short-circuits: for every
\* transaction and payload the list it returns holds one entry for each failing
\* check and none for a passing or skipped one, in the order txn_id, mc_gross,
\* mc_currency, handling_amount, payer_id, then receiver_id or receiver_email
\* (so it is empty exactly when no check fails, and one mismatching field
\* gives exactly the one entry naming it).
C3_NoShortCircuit ==
    last.op = "get_invalid_parameters" =>
        /\ last.result.kind = "ok"
        /\ FieldsOf(last.result.value)
               = C3_FailingChecks(store[last.tx], acquirer, last.data)

\* C3 on the calls that return: the list returned is the list of the failing
\* checks, in order.
C3_WhenReturned ==
    (last.op = "get_invalid_parameters" /\ last.result.kind = "ok") =>
        FieldsOf(last.result.value) = C3_FailingChecks(store[last.tx], acquirer, last.data)

\* C4: for every receiver_id (present, absent, empty) and merchant id (set,
\* unset) exactly one of the two seller comparisons is evaluated: receiver_id
\* alone when both are present (a mismatch gives a receiver_id entry, and a
\* receiver_email mismatch gives none), receiver_email otherwise; so no payload
\* passes without one seller comparison.
C4_OneSellerComparison ==
    last.op = "get_invalid_parameters" =>
        LET data == last.data
            idGiven == data.receiver_id \notin {None, Str("")}
            sellerSet == acquirer.alipay_seller_account \notin {None, Str("")}
            fields == IF last.result.kind = "ok"
                      THEN {last.result.value[k][1] : k \in 1 .. Len(last.result.value)}
                      ELSE {}
        IN /\ Cardinality(last.result.compared) = 1
           /\ last.result.compared
                  = IF idGiven /\ sellerSet THEN {"receiver_id"} ELSE {"receiver_email"}
           /\ (idGiven /\ sellerSet)
                  => /\ "receiver_email" \notin fields
                     /\ "receiver_id" \in fields
                            <=> data.receiver_id # acquirer.alipay_seller_account
           /\ ~(idGiven /\ sellerSet)
                  => /\ "receiver_id" \notin fields
                     /\ "receiver_email" \in fields
                            <=> data.receiver_email # acquirer.alipay_email_account

\* C4 on the calls that return: every call that returns a list evaluated
\* exactly one seller comparison, the one the claim names.
C4_WhenReturned ==
    (last.op = "get_invalid_parameters" /\ last.result.kind = "ok") =>
        C4_OneSellerComparison

\* C7: _alipay_form_get_invalid_parameters is non-fatal: for every transaction
\* and every payload (any keys, any strings, a missing or non-numeric mc_gross
\* or handling_amount included) it returns a list and raises nothing.
C7_NonFatal ==
    last.op = "get_invalid_parameters" =>
        last.result.kind = "ok"

\* C10: every entry (field, received, expected) of the list returned holds the
\* payload's value of the field as received and the value it was compared
\* against as expected; for mc_gross that is amount + fees.
C10_EntriesCarryComparedValues ==
    (last.op = "get_invalid_parameters" /\ last.result.kind = "ok") =>
        \A k \in 1 .. Len(last.result.value) :
            LET e == last.result.value[k]
                tx == store[last.tx]
            IN /\ e[2] = last.data[e[1]]
               /\ CASE e[1] = "txn_id" -> e[3] = tx.acquirer_reference
                    [] e[1] = "mc_gross" ->
                           ParseFloat(e[3][1]).value = FAdd(tx.amount, tx.fees)
                    [] e[1] = "mc_currency" -> e[3] = tx.currency_name
                    [] e[1] = "handling_amount" -> e[3] = tx.fees
                    [] e[1] = "payer_id" -> e[3] = tx.payment_token_id
                    [] e[1] = "receiver_id" -> e[3] = acquirer.alipay_seller_account
                    [] e[1] = "receiver_email" -> e[3] = acquirer.alipay_email_account

\* C10 but for mc_gross: every entry holds the payload's value as received, and
\* every entry other than mc_gross the value compared against as expected; the
\* mc_gross entry holds the amount alone.
C10_ButMcGross ==
    (last.op = "get_invalid_parameters" /\ last.result.kind = "ok") =>
        \A k \in 1 .. Len(last.result.value) :
            LET e == last.result.value[k]
                tx == store[last.tx]
            IN /\ e[2] = last.data[e[1]]
               /\ CASE e[1] = "txn_id" -> e[3] = tx.acquirer_reference
                    [] e[1] = "mc_gross" -> ParseFloat(e[3][1]).value = tx.amount
                    [] e[1] = "mc_currency" -> e[3] = tx.currency_name
                    [] e[1] = "handling_amount" -> e[3] = tx.fees
                    [] e[1] = "payer_id" -> e[3] = tx.payment_token_id
                    [] e[1] = "receiver_id" -> e[3] = acquirer.alipay_seller_account
                    [] e[1] = "receiver_email" -> e[3] = acquirer.alipay_email_account

-----------------------------------------------------------------------------
(* The fee computation on its own: the acquirer's configuration is drawn,     *)
(* and alipay_compute_fees is called with any amount and payer country.       *)

MaxCountry == 2

\* res.country ids; 0 is None (the payer) or a company without country.
CountryIds == 0 .. MaxCountry

Amounts == {Zero, Frac(10000, 100), Frac(1999, 100)}

FeeAcquirers ==
    [fees_active : BOOLEAN,
     company_country_id : CountryIds,
     fees_dom_fixed : {FeesDomFixedDefault},
     fees_dom_var : {FeesDomVarDefault, Hundred},
     fees_int_fixed : {FeesIntFixedDefault, Frac(50, 100)},
     fees_int_var : {FeesIntVarDefault, Hundred},
     alipay_seller_account : {None},
     alipay_email_account : {Str("shop@x.com")}]

InitFees ==
    /\ acquirer \in FeeAcquirers
    /\ store = <<>>
    /\ last = NoCall
    /\ applied = <<>>

ComputeFees ==
    \E amount \in Amounts, country_id \in CountryIds :
        /\ last' = [op |-> "compute_fees", amount |-> amount, country_id |-> country_id,
                    result |-> alipay_compute_fees(acquirer, amount, country_id)]
        /\ UNCHANGED <<acquirer, store, applied>>

NextFees == ComputeFees

SpecFees == InitFees /\ [][NextFees]_vars

\* C8: with fees disabled alipay_compute_fees returns exactly 0; with fees
\* enabled it uses the domestic (percent, fixed) pair exactly when the payer
\* country is non-null and equal to the company's country, the international
\* pair otherwise, and the fee f it returns for the selected pair satisfies
\* f * (100 - percent) = percent * amount + 100 * fixed, which is
\* f = (percent/100 * amount + fixed) / (1 - percent/100) wherever that
\* quotient exists (a rate of 100 percent has none: the division fails).
C8_ComputeFees ==
    last.op = "compute_fees" =>
        IF ~acquirer.fees_active
        THEN last.result.kind = "ok" /\ last.result.value.num = 0
        ELSE LET payerSet == last.country_id # 0
                 merchantSet == acquirer.company_country_id # 0
                 domestic == payerSet /\ merchantSet
                             /\ last.country_id = acquirer.company_country_id
                 percent == IF domestic THEN acquirer.fees_dom_var
                                        ELSE acquirer.fees_int_var
                 fixed == IF domestic THEN acquirer.fees_dom_fixed
                                      ELSE acquirer.fees_int_fixed
             IN IF FEq(percent, Hundred)
                THEN last.result.kind = "ZeroDivisionError"
                ELSE /\ last.result.kind = "ok"
                     /\ FEq(FMul(last.result.value, FSub(Hundred, percent)),
                            FAdd(FMul(percent, last.amount), FMul(Hundred, fixed)))

\* C8 witness: an enabled, domestic computation on a positive amount whose
\* international pair differs, returning a positive fee.
C8_Witness ==
    /\ last.op = "compute_fees"
    /\ acquirer.fees_active
    /\ last.country_id # 0
    /\ last.country_id = acquirer.company_country_id
    /\ acquirer.fees_int_fixed # acquirer.fees_dom_fixed
    /\ last.amount.num > 0
    /\ last.result.kind = "ok"
    /\ last.result.value.num > 0

====
